---------------------------- MODULE Spec2Model ----------------------------
(***************************************************************************)
(* A model of RoboTools' frame classes (robotools/roboframes.py).          *)
(*                                                                         *)
(* A frame is a Python object; its state is its instance dictionary        *)
(* (attrs), which holds frame_id, timestamp and pose, filepath on a        *)
(* file-backed frame, and every field add_data stores.  The operations     *)
(* are add_data, has_field, set_pose, get_pose_data and, on a file-backed  *)
(* frame, the filename properties and read(), with the extension, frame    *)
(* type and image reading functions of robotools/file_utils.py.            *)
(*                                                                         *)
(* Python strings are sequences of one-character strings, so that lower(), *)
(* split() and rsplit() are computed and not assumed.                      *)
(***************************************************************************)
EXTENDS Integers, Sequences, FiniteSets, TLC

VARIABLES
    cls,    \* the class of the frame object: "RoboFrame" or "RoboFrameImage"
    attrs,  \* the instance dictionary: field name -> value
    disk,   \* the image file at the frame's path, and the decoders that read it
    pre,    \* history: attrs as it was when the last operation was called
    last    \* history: the last operation, its arguments and its outcome

vars == <<cls, attrs, disk, pre, last>>

---------------------------------------------------------------------------
(* Bounds of the model.                                                    *)

\* longest list or tuple passed to add_data
MaxLen == 2
\* longest path string given to a file-backed frame
MaxPathLen == 5

---------------------------------------------------------------------------
(* Python values.  Every value is a record of the same shape; `type` says  *)
(* which payload field is meant.                                           *)

Val(type, n, s, items, kw, t, R) ==
    [type |-> type, n |-> n, s |-> s, items |-> items, kw |-> kw, t |-> t, R |-> R]

NoneV       == Val("none", 0, <<>>, <<>>, {}, <<>>, <<>>)
IntV(n)     == Val("int", n, <<>>, <<>>, {}, <<>>, <<>>)
BoolV(b)    == Val("bool", IF b THEN 1 ELSE 0, <<>>, <<>>, {}, <<>>, <<>>)
StrV(s)     == Val("str", 0, s, <<>>, {}, <<>>, <<>>)
ListV(xs)   == Val("list", 0, <<>>, xs, {}, <<>>, <<>>)
TupleV(xs)  == Val("tuple", 0, <<>>, xs, {}, <<>>, <<>>)
DictV(kw)   == Val("dict", 0, <<>>, <<>>, kw, <<>>, <<>>)
PathV(s)    == Val("Path", 0, s, <<>>, {}, <<>>, <<>>)
\* a spatialmath SE3: translation column t and 3x3 rotation block R
SE3V(t, R)  == Val("SE3", 0, <<>>, <<>>, {}, t, R)

---------------------------------------------------------------------------
(* str.lower() on ASCII strings.                                           *)

UpperLetters == <<"A","B","C","D","E","F","G","H","I","J","K","L","M",
                  "N","O","P","Q","R","S","T","U","V","W","X","Y","Z">>
LowerLetters == <<"a","b","c","d","e","f","g","h","i","j","k","l","m",
                  "n","o","p","q","r","s","t","u","v","w","x","y","z">>

LowerChar(c) ==
    IF \E i \in DOMAIN UpperLetters : UpperLetters[i] = c
    THEN LowerLetters[CHOOSE i \in DOMAIN UpperLetters : UpperLetters[i] = c]
    ELSE c

Lower(s) == [i \in DOMAIN s |-> LowerChar(s[i])]

---------------------------------------------------------------------------
(* The names the model uses, as Python strings.                            *)

s_a         == <<"a">>
s_A         == <<"A">>
s_b         == <<"b">>
s_B         == <<"B">>
s_c         == <<"c">>
s_frame_id  == <<"f","r","a","m","e","_","i","d">>
s_Frame_ID  == <<"F","r","a","m","e","_","I","D">>
s_timestamp == <<"t","i","m","e","s","t","a","m","p">>
s_pose      == <<"p","o","s","e">>
s_filepath  == <<"f","i","l","e","p","a","t","h">>
s_init      == <<"_","_","i","n","i","t","_","_">>
s_add_data  == <<"a","d","d","_","d","a","t","a">>
s_has_field == <<"h","a","s","_","f","i","e","l","d">>
s_get_pose_data == <<"g","e","t","_","p","o","s","e","_","d","a","t","a">>
s_set_pose  == <<"s","e","t","_","p","o","s","e">>
s_filestem  == <<"f","i","l","e","s","t","e","m">>
s_filename  == <<"f","i","l","e","n","a","m","e">>
s_rootpath  == <<"r","o","o","t","p","a","t","h">>
s_extension == <<"e","x","t","e","n","s","i","o","n">>
s_prefix    == <<"p","r","e","f","i","x">>
s_user_notes == <<"u","s","e","r","_","n","o","t","e","s">>
s_read      == <<"r","e","a","d">>

---------------------------------------------------------------------------
(* The frame object.                                                       *)

\* The attributes a frame gets from its class: the methods of RoboFrame
\* and, on a file-backed frame, the properties and read() of RoboFrameFile.
\* hasattr() sees them as it sees the instance dictionary.
ClassAttrs(c) ==
    {s_init, s_add_data, s_has_field, s_get_pose_data, s_set_pose}
    \cup (IF c = "RoboFrame" THEN {}
          ELSE {s_filestem, s_filename, s_rootpath, s_extension, s_prefix,
                s_user_notes, s_read})

\* RoboFrame.__init__(frame_id): timestamp and pose default to None
RoboFrameInit(frame_id) ==
    [k \in {s_frame_id, s_timestamp, s_pose} |->
        IF k = s_frame_id THEN IntV(frame_id) ELSE NoneV]

\* RoboFrameFile.__init__(frame_id, filepath)
RoboFrameFileInit(frame_id, filepath) ==
    [k \in {s_frame_id, s_timestamp, s_pose, s_filepath} |->
        IF k = s_frame_id THEN IntV(frame_id)
        ELSE IF k = s_filepath THEN PathV(filepath) ELSE NoneV]

\* mutant: the instance dictionary is replaced by the one new entry
SetAttrAlone(d, name, val) == [k \in {name} |-> val]

\* setattr(self, name, val)
SetAttr(d, name, val) ==
    [k \in DOMAIN d \cup {name} |-> IF k = name THEN val ELSE d[k]]

\* hasattr(self, name)
HasAttr(d, c, name) == name \in DOMAIN d \cup ClassAttrs(c)

---------------------------------------------------------------------------
(* add_data(field, value)                                                  *)

\* `field` as a tuple: a str is wrapped, a list converted
NormField(field) ==
    IF field.type = "str" THEN TupleV(<<field>>)
    ELSE IF field.type = "list" THEN TupleV(field.items)
    ELSE field

\* `value` as a tuple: a str is wrapped, a list converted, a tuple kept,
\* anything else wrapped
NormValue(value) ==
    IF value.type = "str" THEN TupleV(<<value>>)
    ELSE IF value.type = "list" THEN TupleV(value.items)
    ELSE IF value.type # "tuple" THEN TupleV(<<value>>)
    ELSE value

\* mutant: no length check, zip() stops at the shorter sequence
LenMismatchNever(fs, vs) == FALSE

\* len(field) != len(value)
LenMismatch(fs, vs) == Len(fs) # Len(vs)

\* mutant: the name is stored as given
FieldKeyAsGiven(fld) == fld.s

\* fld.lower()
FieldKey(fld) == Lower(fld.s)

Min(a, b) == IF a <= b THEN a ELSE b

\* for fld, val in zip(field, value): setattr(self, fld.lower(), val)
RECURSIVE StoreAll(_, _, _, _)
StoreAll(d, fs, vs, i) ==
    IF i > Min(Len(fs), Len(vs)) THEN d
    ELSE StoreAll(SetAttr(d, FieldKey(fs[i]), vs[i]), fs, vs, i + 1)

\* mutant: a one-name call stores the value object it was given
add_data_raw(d, field, value) ==
    IF field.type = "str"
    THEN [attrs |-> SetAttr(d, Lower(field.s), value), raised |-> ""]
    ELSE LET fs == NormField(field).items
             vs == NormValue(value).items
         IN  IF Len(fs) # Len(vs) THEN [attrs |-> d, raised |-> "ValueError"]
             ELSE [attrs |-> StoreAll(d, fs, vs, 1), raised |-> ""]

\* the whole method: the frame's fields after the call, and what it raised
add_data(d, field, value) ==
    LET fs == NormField(field).items
        vs == NormValue(value).items
    IN  IF LenMismatch(fs, vs)
        THEN [attrs |-> d, raised |-> "ValueError"]
        ELSE [attrs |-> StoreAll(d, fs, vs, 1), raised |-> ""]

---------------------------------------------------------------------------
(* has_field(field)                                                        *)

has_field(d, c, name) == HasAttr(d, c, Lower(name))

---------------------------------------------------------------------------
(* The pose.  Keyword arguments are a set of <<name, number>> pairs.       *)

\* robotools.defines.PoseComponents
POS_ONLY == <<"pos_x", "pos_y", "pos_z">>
ROT_ONLY == <<"quat_w", "quat_x", "quat_y", "quat_z">>
FULL     == POS_ONLY \o ROT_ONLY

Keys(kwargs) == {p[1] : p \in kwargs}

\* kwargs.get(x) for a name that is present
KwGet(kwargs, x) == (CHOOSE p \in kwargs : p[1] = x)[2]

\* all([x in kwargs for x in names])
HasAll(kwargs, names) == \A i \in DOMAIN names : names[i] \in Keys(kwargs)

\* [kwargs.get(x) for x in names]
GetAll(kwargs, names) == [i \in DOMAIN names |-> KwGet(kwargs, names[i])]

Identity3 == <<<<1, 0, 0>>, <<0, 1, 0>>, <<0, 0, 1>>>>

\* sm.base.q2r(q), q = (s, x, y, z)
q2r(q) ==
    LET s == q[1]
        x == q[2]
        y == q[3]
        z == q[4]
    IN  << <<1 - 2 * (y * y + z * z), 2 * (x * y - s * z), 2 * (x * z + s * y)>>,
           <<2 * (x * y + s * z), 1 - 2 * (x * x + z * z), 2 * (y * z - s * x)>>,
           <<2 * (x * z - s * y), 2 * (y * z + s * x), 1 - 2 * (x * x + y * y)>> >>

\* math.sqrt on the perfect squares the model meets
Sqrt(n) == CHOOSE k \in 0..n : k * k <= n /\ (k + 1) * (k + 1) > n

Sq(n) == n * n

\* sm.base.r2q(R): the quaternion (s, x, y, z) of a rotation matrix; the
\* scalar part is a square root, so it is never negative
r2q(R) ==
    LET t12p == Sq(R[1][2] + R[2][1])
        t13p == Sq(R[1][3] + R[3][1])
        t23p == Sq(R[2][3] + R[3][2])
        t12m == Sq(R[1][2] - R[2][1])
        t13m == Sq(R[1][3] - R[3][1])
        t23m == Sq(R[2][3] - R[3][2])
        d1 == Sq(R[1][1] + R[2][2] + R[3][3] + 1)
        d2 == Sq(R[1][1] - R[2][2] - R[3][3] + 1)
        d3 == Sq(R[2][2] - R[1][1] - R[3][3] + 1)
        d4 == Sq(R[3][3] - R[1][1] - R[2][2] + 1)
        e0 == Sqrt(d1 + t23m + t13m + t12m) \div 4
        e1 == Sqrt(t23m + d2 + t12p + t13p) \div 4
        e2 == Sqrt(t13m + t12p + d3 + t23p) \div 4
        e3 == Sqrt(t12m + t13p + t23p + d4) \div 4
    IN  << e0,
           IF R[3][2] < R[2][3] THEN -e1 ELSE e1,
           IF R[1][3] < R[3][1] THEN -e2 ELSE e2,
           IF R[2][1] < R[1][2] THEN -e3 ELSE e3 >>

\* mutant: the three subsets are matched exactly
set_pose_exact(d, kwargs) ==
    IF Keys(kwargs) = {FULL[i] : i \in DOMAIN FULL}
    THEN [attrs |-> SetAttr(d, s_pose, SE3V(GetAll(kwargs, POS_ONLY),
                                           q2r(GetAll(kwargs, ROT_ONLY)))),
          ret |-> TRUE]
    ELSE IF Keys(kwargs) = {POS_ONLY[i] : i \in DOMAIN POS_ONLY}
    THEN [attrs |-> SetAttr(d, s_pose, SE3V(GetAll(kwargs, POS_ONLY), Identity3)),
          ret |-> TRUE]
    ELSE IF Keys(kwargs) = {ROT_ONLY[i] : i \in DOMAIN ROT_ONLY}
    THEN [attrs |-> SetAttr(d, s_pose, SE3V(<<0, 0, 0>>,
                                           q2r(GetAll(kwargs, ROT_ONLY)))),
          ret |-> TRUE]
    ELSE [attrs |-> d, ret |-> FALSE]

\* mutant: a call that matches nothing resets the pose
set_pose_reset(d, kwargs) ==
    IF HasAll(kwargs, FULL)
    THEN [attrs |-> SetAttr(d, s_pose, SE3V(GetAll(kwargs, POS_ONLY),
                                           q2r(GetAll(kwargs, ROT_ONLY)))),
          ret |-> TRUE]
    ELSE IF HasAll(kwargs, POS_ONLY)
    THEN [attrs |-> SetAttr(d, s_pose, SE3V(GetAll(kwargs, POS_ONLY), Identity3)),
          ret |-> TRUE]
    ELSE IF HasAll(kwargs, ROT_ONLY)
    THEN [attrs |-> SetAttr(d, s_pose, SE3V(<<0, 0, 0>>,
                                           q2r(GetAll(kwargs, ROT_ONLY)))),
          ret |-> TRUE]
    ELSE [attrs |-> SetAttr(d, s_pose, NoneV), ret |-> FALSE]

\* mutant: with all seven components the rotation block is not overwritten
set_pose_no_rotation(d, kwargs) ==
    IF HasAll(kwargs, POS_ONLY)
    THEN [attrs |-> SetAttr(d, s_pose, SE3V(GetAll(kwargs, POS_ONLY), Identity3)),
          ret |-> TRUE]
    ELSE IF HasAll(kwargs, ROT_ONLY)
    THEN [attrs |-> SetAttr(d, s_pose, SE3V(<<0, 0, 0>>,
                                           q2r(GetAll(kwargs, ROT_ONLY)))),
          ret |-> TRUE]
    ELSE [attrs |-> d, ret |-> FALSE]

\* mutant: a partial call keeps the other half of the pose the frame had
set_pose_merge(d, kwargs) ==
    IF HasAll(kwargs, FULL)
    THEN [attrs |-> SetAttr(d, s_pose, SE3V(GetAll(kwargs, POS_ONLY),
                                           q2r(GetAll(kwargs, ROT_ONLY)))),
          ret |-> TRUE]
    ELSE IF HasAll(kwargs, POS_ONLY)
    THEN [attrs |-> SetAttr(d, s_pose,
                            SE3V(GetAll(kwargs, POS_ONLY),
                                 IF d[s_pose].type = "SE3" THEN d[s_pose].R
                                 ELSE Identity3)),
          ret |-> TRUE]
    ELSE IF HasAll(kwargs, ROT_ONLY)
    THEN [attrs |-> SetAttr(d, s_pose,
                            SE3V(IF d[s_pose].type = "SE3" THEN d[s_pose].t
                                 ELSE <<0, 0, 0>>,
                                 q2r(GetAll(kwargs, ROT_ONLY)))),
          ret |-> TRUE]
    ELSE [attrs |-> d, ret |-> FALSE]

\* the whole method: the frame's fields after the call, and what it returns.
\* sm.SE3([x, y, z]) is a pure translation, sm.SE3() the identity, and
\* pose.A[:3, :3] = ... overwrites the rotation block.
set_pose(d, kwargs) ==
    IF HasAll(kwargs, FULL)
    THEN [attrs |-> SetAttr(d, s_pose, SE3V(GetAll(kwargs, POS_ONLY),
                                           q2r(GetAll(kwargs, ROT_ONLY)))),
          ret |-> TRUE]
    ELSE IF HasAll(kwargs, POS_ONLY)
    THEN [attrs |-> SetAttr(d, s_pose, SE3V(GetAll(kwargs, POS_ONLY), Identity3)),
          ret |-> TRUE]
    ELSE IF HasAll(kwargs, ROT_ONLY)
    THEN [attrs |-> SetAttr(d, s_pose, SE3V(<<0, 0, 0>>,
                                           q2r(GetAll(kwargs, ROT_ONLY)))),
          ret |-> TRUE]
    ELSE [attrs |-> d, ret |-> FALSE]

\* mutant: a pose that is not an SE3 gives an empty dictionary
get_pose_data_any_type(d) ==
    IF d[s_pose].type = "none" THEN NoneV
    ELSE IF d[s_pose].type # "SE3" THEN DictV({})
    ELSE LET t == d[s_pose].t
             quats == r2q(d[s_pose].R)
         IN  DictV({ <<"pos_x", t[1]>>, <<"pos_y", t[2]>>, <<"pos_z", t[3]>>,
                     <<"quat_w", quats[1]>>, <<"quat_x", quats[2]>>,
                     <<"quat_y", quats[3]>>, <<"quat_z", quats[4]>> })

\* the whole method: None, or the dictionary of the seven components
get_pose_data(d) ==
    IF d[s_pose].type = "none" THEN NoneV
    ELSE IF d[s_pose].type # "SE3" THEN NoneV
    ELSE LET t == d[s_pose].t
             quats == r2q(d[s_pose].R)
         IN  DictV({ <<"pos_x", t[1]>>, <<"pos_y", t[2]>>, <<"pos_z", t[3]>>,
                     <<"quat_w", quats[1]>>, <<"quat_x", quats[2]>>,
                     <<"quat_y", quats[3]>>, <<"quat_z", quats[4]>> })

---------------------------------------------------------------------------
(* str.split and str.rsplit, and pathlib's name.                           *)

\* s.split(c): every piece between separators
RECURSIVE Split(_, _)
Split(s, c) ==
    IF \A i \in DOMAIN s : s[i] # c THEN <<s>>
    ELSE LET i == CHOOSE k \in DOMAIN s : s[k] = c /\ \A j \in 1..(k - 1) : s[j] # c
         IN  <<SubSeq(s, 1, i - 1)>> \o Split(SubSeq(s, i + 1, Len(s)), c)

\* s.split(c, 1): split at the first separator only
SplitFirst(s, c) ==
    IF \A i \in DOMAIN s : s[i] # c THEN <<s>>
    ELSE LET i == CHOOSE k \in DOMAIN s : s[k] = c /\ \A j \in 1..(k - 1) : s[j] # c
         IN  <<SubSeq(s, 1, i - 1), SubSeq(s, i + 1, Len(s))>>

\* s.rsplit(c, 1): split at the last separator only
RSplitFirst(s, c) ==
    IF \A i \in DOMAIN s : s[i] # c THEN <<s>>
    ELSE LET i == CHOOSE k \in DOMAIN s : s[k] = c /\ \A j \in (k + 1)..Len(s) : s[j] # c
         IN  <<SubSeq(s, 1, i - 1), SubSeq(s, i + 1, Len(s))>>

\* pathlib.Path(s).name: the last segment of the path; empty and "."
\* segments are dropped when the path is parsed
PathName(s) ==
    LET segs == SelectSeq(Split(s, "/"), LAMBDA x : x # <<>> /\ x # <<".">>)
    IN  IF segs = <<>> THEN <<>> ELSE segs[Len(segs)]

---------------------------------------------------------------------------
(* The filename properties of a file-backed frame.                         *)

\* the filename property: self.filepath.name
filename(d) == StrV(PathName(d[s_filepath].s))

\* mutant: the filename is split at its last '_'
prefix_rsplit(d) ==
    LET name == PathName(d[s_filepath].s)
    IN  IF Len(RSplitFirst(name, "_")) = 2
        THEN StrV(RSplitFirst(name, "_")[1])
        ELSE NoneV

\* the prefix property
prefix(d) ==
    LET name == PathName(d[s_filepath].s)
    IN  IF Len(SplitFirst(name, "_")) = 2
        THEN StrV(SplitFirst(name, "_")[1])
        ELSE NoneV

\* mutant: the test is < 2 parts, so a single '_' already gives notes
user_notes_lt(d) ==
    LET name == PathName(d[s_filepath].s)
    IN  IF Len(Split(name, "_")) < 2
        THEN NoneV
        ELSE StrV(RSplitFirst(SplitFirst(name, "_")[2], "_")[1])

\* mutant: the notes are the part between the first two '_'
user_notes_second_part(d) ==
    LET name == PathName(d[s_filepath].s)
    IN  IF Len(Split(name, "_")) <= 2
        THEN NoneV
        ELSE StrV(Split(name, "_")[2])

\* the user_notes property
user_notes(d) ==
    LET name == PathName(d[s_filepath].s)
    IN  IF Len(Split(name, "_")) <= 2
        THEN NoneV
        ELSE StrV(RSplitFirst(SplitFirst(name, "_")[2], "_")[1])

\* pathlib's stem: the name up to its last '.', unless that '.' is the
\* first or the last character of the name (then the name has no suffix)
PathStem(name) ==
    IF \A i \in DOMAIN name : name[i] # "." THEN name
    ELSE LET i == CHOOSE k \in DOMAIN name :
                      name[k] = "." /\ \A j \in (k + 1)..Len(name) : name[j] # "."
         IN  IF 1 < i /\ i < Len(name) THEN SubSeq(name, 1, i - 1) ELSE name

\* the filestem property: self.filepath.stem
filestem(d) == StrV(PathStem(PathName(d[s_filepath].s)))

\* mutant: the whole path string is split at its last '.'
extension_from_whole_path(filepath) ==
    IF Len(RSplitFirst(filepath, ".")) = 2
    THEN StrV(RSplitFirst(filepath, ".")[2])
    ELSE NoneV

\* mutant: the name is split at its first '.'
extension_from_first_dot(filepath) ==
    IF Len(SplitFirst(PathName(filepath), ".")) = 2
    THEN StrV(SplitFirst(PathName(filepath), ".")[2])
    ELSE NoneV

\* file_utils.extension_from_filepath(filepath)
extension_from_filepath(filepath) ==
    IF Len(RSplitFirst(PathName(filepath), ".")) = 2
    THEN StrV(RSplitFirst(PathName(filepath), ".")[2])
    ELSE NoneV

\* the extension property
extension(d) == extension_from_filepath(d[s_filepath].s)

---------------------------------------------------------------------------
(* Frame types by extension (file_utils).                                  *)

\* extension strings
e_bmp == <<"b", "m", "p">>
e_pbm == <<"p", "b", "m">>
e_pgm == <<"p", "g", "m">>
e_ppm == <<"p", "p", "m">>
e_jpeg == <<"j", "p", "e", "g">>
e_jpg == <<"j", "p", "g">>
e_jpe == <<"j", "p", "e">>
e_jp2 == <<"j", "p", "2">>
e_tiff == <<"t", "i", "f", "f">>
e_tif == <<"t", "i", "f">>
e_png == <<"p", "n", "g">>
e_ply == <<"p", "l", "y">>
e_pcd == <<"p", "c", "d">>
e_csv == <<"c", "s", "v">>

supported_image_types ==
    <<e_bmp, e_pbm, e_pgm, e_ppm, e_jpeg, e_jpg, e_jpe, e_jp2, e_tiff, e_tif, e_png>>

supported_pointcloud_types == <<e_ply, e_pcd>>

supported_csv_types == <<e_csv>>

\* a member of the FrameType enumeration
FrameTypeV(name) == Val("FrameType", 0, <<name>>, <<>>, {}, <<>>, <<>>)

\* Python's  x in list  for a list of strings
InList(x, list) == x.type = "str" /\ \E i \in DOMAIN list : list[i] = x.s

\* mutant: the extension is lower-cased before the lookup
frametype_from_lowered(ext) ==
    IF InList([ext EXCEPT !.s = Lower(ext.s)], supported_image_types) THEN FrameTypeV("IMAGE")
    ELSE IF InList([ext EXCEPT !.s = Lower(ext.s)], supported_pointcloud_types) THEN FrameTypeV("POINTCLOUD")
    ELSE IF InList([ext EXCEPT !.s = Lower(ext.s)], supported_csv_types) THEN FrameTypeV("CSVDATA")
    ELSE FrameTypeV("UNKNOWN")

\* file_utils.frametype_from_extension(extension)
frametype_from_extension(ext) ==
    IF InList(ext, supported_image_types) THEN FrameTypeV("IMAGE")
    ELSE IF InList(ext, supported_pointcloud_types) THEN FrameTypeV("POINTCLOUD")
    ELSE IF InList(ext, supported_csv_types) THEN FrameTypeV("CSVDATA")
    ELSE FrameTypeV("UNKNOWN")

\* file_utils.frametype_from_filepath(filepath)
frametype_from_filepath(filepath) ==
    frametype_from_extension(extension_from_filepath(filepath))

---------------------------------------------------------------------------
(* Image files and their decoding (file_utils.read_image).                 *)

\* An image file: its native mode ("L", "RGB" or "RGBA"), its pixels (one
\* sequence of channel values per pixel) and the decoders the last
\* operation called on it.
File(mode, px) == [mode |-> mode, px |-> px, reads |-> <<>>]

\* no image at the path
NoFile == File("", <<>>)

\* a numpy array of pixels; a pixel is <<b, g, r>> or, single-channel, <<y>>
ArrayV(px) == Val("ndarray", 0, <<>>, px, {}, <<>>, <<>>)

\* a PIL image of some mode
PilV(mode, px) == Val("PIL", 0, <<mode>>, px, {}, <<>>, <<>>)

\* a member of the ImageFormat enumeration
ImageFormatV(name) == Val("ImageFormat", 0, <<name>>, <<>>, {}, <<>>, <<>>)

\* the luma of a colour pixel, rounded
Gray(r, g, b) == (299 * r + 587 * g + 114 * b + 500) \div 1000

\* the luma of a pixel of a file of the given mode
FileGray(mode, p) == IF mode = "L" THEN p[1] ELSE Gray(p[1], p[2], p[3])

\* cv2.imread(path, cv2.IMREAD_COLOR): three channels, blue first
imread_color(file) ==
    ArrayV([i \in DOMAIN file.px |->
               IF file.mode = "L"
               THEN <<file.px[i][1], file.px[i][1], file.px[i][1]>>
               ELSE <<file.px[i][3], file.px[i][2], file.px[i][1]>>])

\* cv2.imread(path, cv2.IMREAD_GRAYSCALE): one channel
imread_grayscale(file) ==
    ArrayV([i \in DOMAIN file.px |-> <<FileGray(file.mode, file.px[i])>>])

\* cv2.cvtColor(img, cv2.COLOR_BGR2GRAY)
cvtColor_BGR2GRAY(img) ==
    ArrayV([i \in DOMAIN img.items |->
               <<Gray(img.items[i][3], img.items[i][2], img.items[i][1])>>])

\* PIL.Image.open(path): the image in the file's own mode
Image_open(file) == PilV(file.mode, file.px)

\* img.convert('L')
convert_L(img) ==
    PilV("L", [i \in DOMAIN img.items |-> <<FileGray(img.s[1], img.items[i])>>])

\* mutant: with colour None only the blue and green channels are compared
read_image_opencv_two_channels(file, colour) ==
    IF colour.type # "none"
    THEN IF colour.n # 0 THEN imread_color(file) ELSE imread_grayscale(file)
    ELSE LET img == imread_color(file)
         IN  IF \A i \in DOMAIN img.items : img.items[i][1] = img.items[i][2]
             THEN cvtColor_BGR2GRAY(img)
             ELSE img

\* file_utils.read_image_opencv(filepath, colour)
read_image_opencv(file, colour) ==
    IF colour.type # "none"
    THEN IF colour.n # 0 THEN imread_color(file) ELSE imread_grayscale(file)
    ELSE LET img == imread_color(file)
         IN  IF /\ \A i \in DOMAIN img.items : img.items[i][1] = img.items[i][2]
                /\ \A i \in DOMAIN img.items : img.items[i][1] = img.items[i][3]
             THEN cvtColor_BGR2GRAY(img)
             ELSE img

\* file_utils.read_image_pil(filepath, colour)
read_image_pil(file, colour) ==
    LET img == Image_open(file)
    IN  IF colour = BoolV(FALSE) /\ img.s # <<"L">> THEN convert_L(img) ELSE img

\* "Unknown image format %d." % (image_format): %d formats a number and is a
\* TypeError for anything else
FormatError(image_format) ==
    IF image_format.type \in {"int", "bool"} THEN "ValueError" ELSE "TypeError"

\* file_utils.read_image(filepath, image_format, colour): the image returned,
\* the exception raised, and the decoders called
read_image(file, image_format, colour) ==
    IF image_format = ImageFormatV("OPENCV")
    THEN [ret |-> read_image_opencv(file, colour), raised |-> "", reads |-> <<"cv2">>]
    ELSE IF image_format = ImageFormatV("PIL")
    THEN [ret |-> read_image_pil(file, colour), raised |-> "", reads |-> <<"PIL">>]
    ELSE [ret |-> NoneV, raised |-> FormatError(image_format), reads |-> <<>>]

\* kwargs.get(name, default) on keyword arguments whose values are Python values
KwGetDefault(kwargs, name, default) ==
    IF \E p \in kwargs : p[1] = name THEN KwGet(kwargs, name) ELSE default

\* RoboFrameImage.read(**kwargs): the arguments read_image gets and its outcome
read(file, kwargs) ==
    LET image_format == KwGetDefault(kwargs, "image_format", ImageFormatV("OPENCV"))
        colour == KwGetDefault(kwargs, "colour", BoolV(TRUE))
    IN  [image_format |-> image_format, colour |-> colour,
         out |-> read_image(file, image_format, colour)]

---------------------------------------------------------------------------
(* The inputs the operations are called with.                              *)

\* the frame_id given to the constructor
FrameIds == {1}

\* names passed to add_data one at a time
StrNames == {s_a, s_A, s_frame_id, s_pose}

\* names passed to add_data in a list or tuple: the first n of A, b, a, B, ...
NamePool == <<s_A, s_b, s_a, s_B>>
NameList(n) == [i \in 1..n |-> StrV(NamePool[((i - 1) % Len(NamePool)) + 1])]

FieldInputs ==
    {StrV(n) : n \in StrNames}
    \cup {ListV(NameList(n)) : n \in 0..MaxLen}
    \cup {TupleV(NameList(n)) : n \in 0..MaxLen}

\* values passed to add_data: a number, a string of two characters, and the
\* lists and tuples [1, ..., n]
ValList(n) == [i \in 1..n |-> IntV(i)]

ValueInputs ==
    {IntV(1), StrV(<<"s", "t">>)}
    \cup {ListV(ValList(n)) : n \in 0..MaxLen}
    \cup {TupleV(ValList(n)) : n \in 0..MaxLen}

\* names has_field is asked about
QueryNames ==
    {s_a, s_A, s_b, s_B, s_c, s_frame_id, s_Frame_ID, s_timestamp, s_pose,
     s_filepath, s_has_field, s_prefix}

\* translations and unit quaternions passed to set_pose
Translations == {<<1, 2, 3>>}

\* unit quaternions (w, x, y, z): the identity, a half turn about x, the
\* negation of each, which is the same rotation, and a half turn about y
UnitQuats ==
    {<<1, 0, 0, 0>>, <<0, 1, 0, 0>>, <<-1, 0, 0, 0>>, <<0, -1, 0, 0>>, <<0, 0, 1, 0>>}

SampleQuats == {<<0, 1, 0, 0>>, <<0, -1, 0, 0>>}

PoseNames == {FULL[i] : i \in DOMAIN FULL}
PosNames  == {POS_ONLY[i] : i \in DOMAIN POS_ONLY}
RotNames  == {ROT_ONLY[i] : i \in DOMAIN ROT_ONLY}

\* the keyword arguments that give translation t and quaternion q in full
FullKw(t, q) ==
    { <<POS_ONLY[i], t[i]>> : i \in DOMAIN POS_ONLY }
    \cup { <<ROT_ONLY[i], q[i]>> : i \in DOMAIN ROT_ONLY }

\* some of them only
Restrict(kwargs, S) == {p \in kwargs : p[1] \in S}

\* every subset of the seven names
AllKwargs ==
    {Restrict(FullKw(t, q), S) : t \in Translations, q \in UnitQuats, S \in SUBSET PoseNames}

\* a sample of the subsets
SampleKeySets ==
    {{}, {"pos_x"}, PosNames, RotNames, PoseNames, PosNames \cup {"quat_w"},
     RotNames \cup {"pos_x", "pos_y"}}

SampleKwargs ==
    {Restrict(FullKw(t, q), S) : t \in Translations, q \in SampleQuats, S \in SampleKeySets}

\* the paths given to a file-backed frame: every string of these characters
PathChars == {"a", "_", ".", "/"}

Paths == UNION {[1..n -> PathChars] : n \in 0..MaxPathLen}

---------------------------------------------------------------------------
(* The operations, as actions on a frame.                                  *)

Last(op, field, value, name, kwargs, ret, raised) ==
    [op |-> op, field |-> field, value |-> value, name |-> name,
     kwargs |-> kwargs, ret |-> ret, raised |-> raised]

\* frame = RoboFrame(frame_id)
Init ==
    /\ cls = "RoboFrame"
    /\ \E id \in FrameIds : attrs = RoboFrameInit(id)
    /\ pre = attrs
    /\ disk = NoFile
    /\ last = Last("init", NoneV, NoneV, <<>>, {}, NoneV, "")

\* frame.add_data(field, value)
AddData(field, value) ==
    LET r == add_data(attrs, field, value)
    IN  /\ attrs' = r.attrs
        /\ pre' = attrs
        /\ last' = Last("add_data", field, value, <<>>, {}, NoneV, r.raised)
        /\ UNCHANGED <<cls, disk>>

\* frame.has_field(name)
HasField(name) ==
    /\ last' = Last("has_field", NoneV, NoneV, name, {},
                    BoolV(has_field(attrs, cls, name)), "")
    /\ pre' = attrs
    /\ UNCHANGED <<cls, attrs, disk>>

\* frame.set_pose(**kwargs)
SetPose(kwargs) ==
    LET r == set_pose(attrs, kwargs)
    IN  /\ attrs' = r.attrs
        /\ pre' = attrs
        /\ last' = Last("set_pose", NoneV, NoneV, <<>>, kwargs, BoolV(r.ret), "")
        /\ UNCHANGED <<cls, disk>>

\* frame.get_pose_data()
GetPoseData ==
    /\ last' = Last("get_pose_data", NoneV, NoneV, <<>>, {},
                    get_pose_data(attrs), "")
    /\ pre' = attrs
    /\ UNCHANGED <<cls, attrs, disk>>

\* A frame and every operation on it.
Next ==
    \/ \E field \in FieldInputs, value \in ValueInputs : AddData(field, value)
    \/ \E name \in QueryNames : HasField(name)
    \/ \E kwargs \in SampleKwargs : SetPose(kwargs)
    \/ GetPoseData

Spec == Init /\ [][Next]_vars

\* The pose operations, with every subset of the seven component names;
\* add_data appears only as the way to store something else under `pose`.
NextPose ==
    \/ \E kwargs \in AllKwargs : SetPose(kwargs)
    \/ GetPoseData
    \/ AddData(StrV(s_pose), IntV(1))

SpecPose == Init /\ [][NextPose]_vars

---------------------------------------------------------------------------
(* A file-backed frame and its filename properties.                        *)

\* frame = RoboFrameImage(frame_id, filepath)
InitFile ==
    /\ cls = "RoboFrameImage"
    /\ \E id \in FrameIds, p \in Paths : attrs = RoboFrameFileInit(id, p)
    /\ pre = attrs
    /\ disk = NoFile
    /\ last = Last("init", NoneV, NoneV, <<>>, {}, NoneV, "")

\* frame.filename
Filename ==
    /\ last' = Last("filename", NoneV, NoneV, <<>>, {}, filename(attrs), "")
    /\ pre' = attrs
    /\ UNCHANGED <<cls, attrs, disk>>

\* frame.prefix
Prefix ==
    /\ last' = Last("prefix", NoneV, NoneV, <<>>, {}, prefix(attrs), "")
    /\ pre' = attrs
    /\ UNCHANGED <<cls, attrs, disk>>

\* frame.user_notes
UserNotes ==
    /\ last' = Last("user_notes", NoneV, NoneV, <<>>, {}, user_notes(attrs), "")
    /\ pre' = attrs
    /\ UNCHANGED <<cls, attrs, disk>>

\* frame.filestem
Filestem ==
    /\ last' = Last("filestem", NoneV, NoneV, <<>>, {}, filestem(attrs), "")
    /\ pre' = attrs
    /\ UNCHANGED <<cls, attrs, disk>>

\* frame.extension
Extension ==
    /\ last' = Last("extension", NoneV, NoneV, <<>>, {}, extension(attrs), "")
    /\ pre' = attrs
    /\ UNCHANGED <<cls, attrs, disk>>

NextFile ==
    \/ Filename
    \/ Filestem
    \/ Extension
    \/ Prefix
    \/ UserNotes
    \/ \E name \in {s_filepath, s_prefix, s_c} : HasField(name)

SpecFile == InitFile /\ [][NextFile]_vars

---------------------------------------------------------------------------
(* Frame types of file-backed frames.                                      *)

\* the longest path, in tokens
MaxTokens == 3

\* the pieces paths are built from
PathTokens ==
    {<<"a">>, <<"/">>, <<".">>, <<".">> \o e_png, e_csv, <<".", "P", "L", "Y">>}

RECURSIVE TokenPaths(_)
TokenPaths(n) ==
    IF n = 0 THEN {<<>>}
    ELSE TokenPaths(n - 1) \cup {p \o k : p \in TokenPaths(n - 1), k \in PathTokens}

\* the extensions frametype_from_extension is called with
ExtInputs ==
    {StrV(supported_image_types[i]) : i \in DOMAIN supported_image_types}
    \cup {StrV(supported_pointcloud_types[i]) : i \in DOMAIN supported_pointcloud_types}
    \cup {StrV(supported_csv_types[i]) : i \in DOMAIN supported_csv_types}
    \cup {StrV(<<"P", "N", "G">>), StrV(<<"P", "n", "g">>), StrV(<<"P", "L", "Y">>),
          StrV(<<"C", "s", "v">>), StrV(<<"x", "y", "z">>), StrV(<<>>),
          StrV(<<"p", "n">>), StrV(<<".", "p", "n", "g">>), NoneV, IntV(1)}

InitType ==
    /\ cls = "RoboFrameImage"
    /\ \E id \in FrameIds, p \in TokenPaths(MaxTokens) :
          attrs = RoboFrameFileInit(id, p)
    /\ pre = attrs
    /\ disk = NoFile
    /\ last = Last("init", NoneV, NoneV, <<>>, {}, NoneV, "")

\* frametype_from_extension(ext)
FrametypeFromExtension(ext) ==
    /\ last' = Last("frametype_from_extension", NoneV, ext, <<>>, {},
                    frametype_from_extension(ext), "")
    /\ pre' = attrs
    /\ UNCHANGED <<cls, attrs, disk>>

\* frametype_from_filepath(frame.filepath)
FrametypeFromFilepath ==
    /\ last' = Last("frametype_from_filepath", NoneV, attrs[s_filepath], <<>>, {},
                    frametype_from_filepath(attrs[s_filepath].s), "")
    /\ pre' = attrs
    /\ UNCHANGED <<cls, attrs, disk>>

NextType ==
    \/ \E ext \in ExtInputs : FrametypeFromExtension(ext)
    \/ FrametypeFromFilepath
    \/ Extension

SpecType == InitType /\ [][NextType]_vars

---------------------------------------------------------------------------
(* Reading the image of an image frame.                                    *)

\* the most pixels an image file has
MaxPixels == 2

\* channel values
Levels == {0, 255}

\* the pixels of a file of the given mode; the alpha channel is opaque
PixelsOf(mode) ==
    IF mode = "L" THEN {<<y>> : y \in Levels}
    ELSE IF mode = "RGB" THEN {<<r, g, b>> : r \in Levels, g \in Levels, b \in Levels}
    ELSE {<<r, g, b, 255>> : r \in Levels, g \in Levels, b \in Levels}

\* the image files a frame's path may hold
ImageFiles ==
    UNION {{File(mode, px) : px \in UNION {[1..n -> PixelsOf(mode)] : n \in 1..MaxPixels}} :
              mode \in {"L", "RGB", "RGBA"}}

\* the image_format and colour arguments of read()
FormatInputs ==
    {ImageFormatV("OPENCV"), ImageFormatV("PIL"), IntV(-1), StrV(e_jpeg), NoneV}

ColourInputs == {BoolV(TRUE), BoolV(FALSE), NoneV}

ReadKwargs ==
    {f \cup c : f \in {{}} \cup {{<<"image_format", x>>} : x \in FormatInputs},
                c \in {{}} \cup {{<<"colour", x>>} : x \in ColourInputs}}

InitImage ==
    /\ cls = "RoboFrameImage"
    /\ \E id \in FrameIds : attrs = RoboFrameFileInit(id, <<"a", ".">> \o e_png)
    /\ pre = attrs
    /\ disk \in ImageFiles
    /\ last = Last("init", NoneV, NoneV, <<>>, {}, NoneV, "")

\* frame.read(**kwargs)
Read(kwargs) ==
    LET r == read([disk EXCEPT !.reads = <<>>], kwargs)
    IN  /\ disk' = [disk EXCEPT !.reads = r.out.reads]
        /\ last' = Last("read", r.image_format, r.colour, <<>>, kwargs,
                        r.out.ret, r.out.raised)
        /\ pre' = attrs
        /\ UNCHANGED <<cls, attrs>>

NextImage ==
    \/ \E kwargs \in ReadKwargs : Read(kwargs)
    \/ Extension

SpecImage == InitImage /\ [][NextImage]_vars

---------------------------------------------------------------------------
(* Properties of the filename properties (checked under SpecFile).         *)

\* the filename of the frame, and the positions of its '_' characters
FrameFilename == PathName(attrs[s_filepath].s)
Underscores(name) == {i \in DOMAIN name : name[i] = "_"}

\* C1: user_notes is None when the filename has fewer than two '_';
\* otherwise it is the text strictly between the first '_' and the last '_'
\* of the filename, embedded '_' included.
C1_UserNotes ==
    last.op = "user_notes" =>
        LET name == FrameFilename
            us == Underscores(name)
        IN  IF Cardinality(us) < 2
            THEN last.ret = NoneV
            ELSE \E i \in us, j \in us :
                    /\ \A k \in us : i <= k /\ k <= j
                    /\ last.ret = StrV(SubSeq(name, i + 1, j - 1))

\* C1 witness: user_notes was read and the notes themselves contain a '_'
C1_Witness ==
    /\ last.op = "user_notes"
    /\ last.ret.type = "str"
    /\ \E i \in DOMAIN last.ret.s : last.ret.s[i] = "_"
    /\ \E i \in DOMAIN last.ret.s : last.ret.s[i] = "a"

\* C2: prefix is the text before the first '_' of the filename when there is
\* a '_', and None when there is none.
C2_Prefix ==
    last.op = "prefix" =>
        LET name == FrameFilename
            us == Underscores(name)
        IN  IF us = {}
            THEN last.ret = NoneV
            ELSE \E i \in us :
                    /\ \A k \in us : i <= k
                    /\ last.ret = StrV(SubSeq(name, 1, i - 1))

\* C2 witness: prefix was read on a filename with several '_' and is not empty
C2_Witness ==
    /\ last.op = "prefix"
    /\ Cardinality(Underscores(FrameFilename)) >= 2
    /\ last.ret.type = "str"
    /\ last.ret.s # <<>>

\* the positions of the '.' characters of a name
Dots(name) == {i \in DOMAIN name : name[i] = "."}

\* C11 as stated: with no '.' in the filename, extension is None and
\* filestem is the filename; otherwise extension is the text after the last
\* '.', filestem is the text before it, and filestem + '.' + extension is
\* the filename.
C11_Original ==
    LET name == FrameFilename
        ds == Dots(name)
    IN  /\ last.op = "extension" =>
              IF ds = {} THEN last.ret = NoneV
              ELSE \E i \in ds : /\ \A k \in ds : k <= i
                                 /\ last.ret = StrV(SubSeq(name, i + 1, Len(name)))
        /\ last.op = "filestem" =>
              IF ds = {} THEN last.ret = StrV(name)
              ELSE /\ \E i \in ds : /\ \A k \in ds : k <= i
                                    /\ last.ret = StrV(SubSeq(name, 1, i - 1))
                   /\ extension(attrs).type = "str"
                   /\ last.ret.s \o <<".">> \o extension(attrs).s = name

\* C12: the filename properties of a frame are those of a frame whose path
\* is the last segment alone, whatever the directory segments contain.
C12_DirectoryIgnored ==
    LET alone == RoboFrameFileInit(attrs[s_frame_id].n, FrameFilename)
    IN  /\ last.op = "filename" => last.ret = filename(alone)
        /\ last.op = "filestem" => last.ret = filestem(alone)
        /\ last.op = "extension" => last.ret = extension(alone)
        /\ last.op = "prefix" => last.ret = prefix(alone)
        /\ last.op = "user_notes" => last.ret = user_notes(alone)

\* the directory part of the frame's path holds a '.' and a '_'
DirectoryHasDotAndUnderscore ==
    \E i \in DOMAIN attrs[s_filepath].s :
        /\ attrs[s_filepath].s[i] = "/"
        /\ \E j \in 1..(i - 1) : attrs[s_filepath].s[j] = "."
        /\ \E j \in 1..(i - 1) : attrs[s_filepath].s[j] = "_"
        /\ \A j \in (i + 1)..Len(attrs[s_filepath].s) :
              attrs[s_filepath].s[j] \notin {"/", ".", "_"}
        /\ i < Len(attrs[s_filepath].s)

\* C12 witness: extension was read as None on a path whose directory holds
\* a '.' and a '_'
C12_Witness ==
    /\ last.op = "extension"
    /\ last.ret = NoneV
    /\ DirectoryHasDotAndUnderscore

\* the text has no '_'
NoUnderscore(s) == \A i \in DOMAIN s : s[i] # "_"

\* the ends of a name: every text the name finishes with, the empty one too
Tails(name) == {SubSeq(name, k, Len(name)) : k \in 1..(Len(name) + 1)}

\* C21: the filename decomposition is lossless: when user_notes is present
\* so is prefix, and the filename is prefix + '_' + user_notes + '_' + tail
\* with no '_' in tail; when prefix is present and user_notes is not, the
\* filename is prefix + '_' + tail with no '_' in tail; and prefix never
\* contains a '_'.
C21_Lossless ==
    LET name == FrameFilename
        p == IF last.op = "prefix" THEN last.ret ELSE prefix(attrs)
        u == IF last.op = "user_notes" THEN last.ret ELSE user_notes(attrs)
    IN  last.op \in {"prefix", "user_notes"} =>
            /\ u # NoneV =>
                  /\ p # NoneV
                  /\ \E tail \in Tails(name) :
                        /\ NoUnderscore(tail)
                        /\ name = p.s \o <<"_">> \o u.s \o <<"_">> \o tail
            /\ (p # NoneV /\ u = NoneV) =>
                  \E tail \in Tails(name) :
                        /\ NoUnderscore(tail)
                        /\ name = p.s \o <<"_">> \o tail
            /\ p # NoneV => NoUnderscore(p.s)

\* C21 witness: user_notes was read on a filename with three '_', where the
\* notes hold one of them and the prefix is not empty
C21_Witness ==
    /\ last.op = "user_notes"
    /\ Cardinality(Underscores(FrameFilename)) = 3
    /\ last.ret = StrV(<<"_">>)
    /\ prefix(attrs) = StrV(<<"a">>)

---------------------------------------------------------------------------
(* Properties of the frame-type lookup (checked under SpecType).           *)

\* the table of the specification
ImageTable ==
    {<<"b", "m", "p">>, <<"p", "b", "m">>, <<"p", "g", "m">>, <<"p", "p", "m">>,
     <<"j", "p", "e", "g">>, <<"j", "p", "g">>, <<"j", "p", "e">>, <<"j", "p", "2">>,
     <<"t", "i", "f", "f">>, <<"t", "i", "f">>, <<"p", "n", "g">>}

PointCloudTable == {<<"p", "l", "y">>, <<"p", "c", "d">>}

CsvTable == {<<"c", "s", "v">>}

\* the category the specification's table gives an extension
TableType(ext) ==
    IF ext.type = "str" /\ ext.s \in ImageTable THEN "IMAGE"
    ELSE IF ext.type = "str" /\ ext.s \in PointCloudTable THEN "POINTCLOUD"
    ELSE IF ext.type = "str" /\ ext.s \in CsvTable THEN "CSVDATA"
    ELSE "UNKNOWN"

\* C13: frametype_from_extension returns IMAGE exactly for the eleven image
\* extensions, POINTCLOUD exactly for ply and pcd, CSV exactly for csv, and
\* UNKNOWN for everything else: None, and spellings in another letter case.
C13_ExtensionTable ==
    last.op = "frametype_from_extension" =>
        /\ last.ret = FrameTypeV(TableType(last.value))
        /\ last.value.type # "str" => last.ret = FrameTypeV("UNKNOWN")
        /\ ( /\ last.value.type = "str"
             /\ last.value.s \notin ImageTable \cup PointCloudTable \cup CsvTable
             /\ Lower(last.value.s) \in ImageTable \cup PointCloudTable \cup CsvTable )
           => last.ret = FrameTypeV("UNKNOWN")

\* C13 witness: the upper-case spelling of a table entry was looked up
C13_Witness ==
    /\ last.op = "frametype_from_extension"
    /\ last.value = StrV(<<"P", "L", "Y">>)
    /\ last.ret = FrameTypeV("UNKNOWN")

\* C14: frametype_from_filepath is frametype_from_extension of the text
\* after the last '.' of the last path segment, and UNKNOWN when that
\* segment has no '.', whatever the directory segments hold.
C14_PathType ==
    LET name == PathName(last.value.s)
        ds == Dots(name)
    IN  last.op = "frametype_from_filepath" =>
            IF ds = {} THEN last.ret = FrameTypeV("UNKNOWN")
            ELSE \E i \in ds :
                    /\ \A k \in ds : k <= i
                    /\ last.ret = frametype_from_extension(
                                      StrV(SubSeq(name, i + 1, Len(name))))

\* C14 witness: a path whose directory ends in .png and whose last segment
\* has no '.' was classified
C14_Witness ==
    /\ last.op = "frametype_from_filepath"
    /\ last.value.s = <<".">> \o e_png \o <<"/", "a">>
    /\ last.ret = FrameTypeV("UNKNOWN")

---------------------------------------------------------------------------
(* Properties of add_data and has_field (checked under Spec).              *)

\* how many names or values an argument of add_data stands for
ArgCount(x) == IF x.type \in {"list", "tuple"} THEN Len(x.items) ELSE 1

\* C3: add_data with different numbers of names and values raises
\* ValueError and stores nothing: every field, and has_field of every name,
\* is as before the call.
C3_MismatchStoresNothing ==
    (last.op = "add_data" /\ ArgCount(last.field) # ArgCount(last.value)) =>
        /\ last.raised = "ValueError"
        /\ attrs = pre
        /\ \A n \in QueryNames : has_field(attrs, cls, n) = has_field(pre, cls, n)

\* C3 witness: one name and a two-element list, on a frame that already
\* holds an added field
C3_Witness ==
    /\ last.op = "add_data"
    /\ last.field.type = "str"
    /\ last.value.type = "list"
    /\ Len(last.value.items) = 2
    /\ last.raised = "ValueError"
    /\ s_b \in DOMAIN pre

\* no two stored names differ only in letter case
OneSlotPerName ==
    \A k1 \in DOMAIN attrs, k2 \in DOMAIN attrs : Lower(k1) = Lower(k2) => k1 = k2

\* C4 as stated: after add_data(n, v) succeeds, has_field(m) is true for
\* every m equal to n ignoring case, v is stored under lower(n), and names
\* that differ only in case share one slot.
C4_Original ==
    (last.op = "add_data" /\ last.field.type = "str" /\ last.raised = "") =>
        /\ \A m \in QueryNames :
              Lower(m) = Lower(last.field.s) => has_field(attrs, cls, m)
        /\ Lower(last.field.s) \in DOMAIN attrs
        /\ attrs[Lower(last.field.s)] = last.value
        /\ OneSlotPerName

\* C4 as amended: the same, with the value stored under lower(n) being the
\* value paired with n: v itself, or the only element of v when v is a
\* one-element list or tuple.
C4_CaseNormalized ==
    (last.op = "add_data" /\ last.field.type = "str" /\ last.raised = "") =>
        /\ \A m \in QueryNames :
              Lower(m) = Lower(last.field.s) => has_field(attrs, cls, m)
        /\ Lower(last.field.s) \in DOMAIN attrs
        /\ attrs[Lower(last.field.s)] =
              (IF last.value.type \in {"list", "tuple"}
               THEN last.value.items[1] ELSE last.value)
        /\ OneSlotPerName

\* C4 witness: add_data("A", w) overwrote what an earlier call stored as "a"
C4_Witness ==
    /\ last.op = "add_data"
    /\ last.field = StrV(s_A)
    /\ last.raised = ""
    /\ s_a \in DOMAIN pre
    /\ attrs[s_a] # pre[s_a]
    /\ DOMAIN attrs = DOMAIN pre

\* C5 as stated: frame_id is the integer given to the constructor, whatever
\* was called since.
C5_FrameIdImmutable == \E id \in FrameIds : attrs[s_frame_id] = IntV(id)

\* C9 as stated: has_field(name) is true exactly when a data field is
\* stored on the frame under lower(name).
C9_Original ==
    last.op = "has_field" =>
        (last.ret = BoolV(TRUE) <=> Lower(last.name) \in DOMAIN attrs)

\* C10 as stated: for one name n and any value v, add_data(n, v) succeeds
\* and lower(n) then holds v itself.
C10_Original ==
    (last.op = "add_data" /\ last.field.type = "str") =>
        /\ last.raised = ""
        /\ attrs[Lower(last.field.s)] = last.value

\* C10 as amended: for one name n, a value that is not a list or tuple is
\* stored as it is; a one-element list or tuple is unwrapped and its element
\* stored; a list or tuple of any other length raises ValueError and stores
\* nothing.
C10_StoredAsPaired ==
    (last.op = "add_data" /\ last.field.type = "str") =>
        IF last.value.type \in {"list", "tuple"}
        THEN IF Len(last.value.items) = 1
             THEN /\ last.raised = ""
                  /\ attrs[Lower(last.field.s)] = last.value.items[1]
             ELSE /\ last.raised = "ValueError"
                  /\ attrs = pre
        ELSE /\ last.raised = ""
             /\ attrs[Lower(last.field.s)] = last.value

\* C10 witness: a one-element list was passed for one name and its element
\* is what the field holds
C10_Witness ==
    /\ last.op = "add_data"
    /\ last.field = StrV(s_a)
    /\ last.value = ListV(<<IntV(1)>>)
    /\ last.raised = ""
    /\ attrs[s_a] = IntV(1)

---------------------------------------------------------------------------
(* Properties of set_pose and get_pose_data (checked under SpecPose).      *)

CallKeys == Keys(last.kwargs)

\* the values a call gave for a sequence of names it supplied in full
CallValues(names) == [i \in DOMAIN names |-> KwGet(last.kwargs, names[i])]

\* the value get_pose_data returns for a key
DictGet(d, k) == (CHOOSE p \in d.kw : p[1] = k)[2]

\* C6: set_pose with neither all three translation names nor all four
\* rotation names returns False and leaves the pose as it was.
C6_InsufficientRejected ==
    (last.op = "set_pose" /\ ~(PosNames \subseteq CallKeys)
                          /\ ~(RotNames \subseteq CallKeys)) =>
        /\ last.ret = BoolV(FALSE)
        /\ attrs[s_pose] = pre[s_pose]
        /\ attrs = pre

\* C6 witness: set_pose(pos_x=...) alone, on a frame whose pose was set
C6_Witness ==
    /\ last.op = "set_pose"
    /\ CallKeys = {"pos_x"}
    /\ last.ret = BoolV(FALSE)
    /\ pre[s_pose].type = "SE3"

\* some but not all names of a group were supplied
Partial(group) == CallKeys \cap group # {} /\ ~(group \subseteq CallKeys)

\* C7 as stated: set_pose returns True only when the supplied names are
\* exactly the translation names, exactly the rotation names or exactly all
\* seven, and rejects every call with a partial translation or a partial
\* rotation.
C7_Original ==
    last.op = "set_pose" =>
        /\ last.ret = BoolV(TRUE) => CallKeys \in {PosNames, RotNames, PoseNames}
        /\ (Partial(PosNames) \/ Partial(RotNames)) =>
              (last.ret = BoolV(FALSE) /\ attrs = pre)

\* C7 as amended: set_pose returns True exactly when the supplied names
\* include all three translation names or all four rotation names; a
\* complete group supplied with an incomplete other group is accepted and
\* the incomplete group ignored; a call with neither complete group is
\* rejected and leaves the pose as it was.
C7_MatchByInclusion ==
    last.op = "set_pose" =>
        /\ last.ret = BoolV(TRUE) <=>
              (PosNames \subseteq CallKeys \/ RotNames \subseteq CallKeys)
        /\ last.ret = BoolV(FALSE) => attrs = pre
        /\ (PosNames \subseteq CallKeys /\ ~(RotNames \subseteq CallKeys)) =>
              attrs[s_pose] = SE3V(CallValues(POS_ONLY), Identity3)
        /\ (RotNames \subseteq CallKeys /\ ~(PosNames \subseteq CallKeys)) =>
              /\ attrs[s_pose].type = "SE3"
              /\ attrs[s_pose].t = <<0, 0, 0>>
              /\ attrs[s_pose].R = q2r(CallValues(ROT_ONLY))

\* C7 witness: the three translation names with quat_w alone were accepted
C7_Witness ==
    /\ last.op = "set_pose"
    /\ CallKeys = PosNames \cup {"quat_w"}
    /\ last.ret = BoolV(TRUE)

C15_PoseData ==
    last.op = "get_pose_data" =>
        /\ last.ret = NoneV <=> attrs[s_pose].type # "SE3"
        /\ attrs = RoboFrameInit(attrs[s_frame_id].n) => last.ret = NoneV
        /\ last.ret # NoneV =>
              /\ last.ret.type = "dict"
              /\ Keys(last.ret.kw) = PoseNames
              /\ Cardinality(last.ret.kw) = Cardinality(PoseNames)
        /\ attrs[s_pose] = SE3V(<<0, 0, 0>>, Identity3) =>
              last.ret = DictV(FullKw(<<0, 0, 0>>, <<1, 0, 0, 0>>))

\* C15 witness: the pose data of the identity transform was read
C15_Witness ==
    /\ last.op = "get_pose_data"
    /\ attrs[s_pose] = SE3V(<<0, 0, 0>>, Identity3)
    /\ last.ret.type = "dict"

\* C19: a successful set_pose replaces the whole pose: with only the three
\* translation components the rotation is the identity (quat 1, 0, 0, 0),
\* with only the four rotation components the translation is (0, 0, 0),
\* whatever pose the frame had before.
C19_ReplacesWholePose ==
    (last.op = "set_pose" /\ last.ret = BoolV(TRUE)) =>
        /\ CallKeys = PosNames =>
              /\ attrs[s_pose].type = "SE3"
              /\ attrs[s_pose].R = Identity3
              /\ get_pose_data(attrs) =
                     DictV(FullKw(CallValues(POS_ONLY), <<1, 0, 0, 0>>))
        /\ CallKeys = RotNames =>
              /\ attrs[s_pose].type = "SE3"
              /\ attrs[s_pose].t = <<0, 0, 0>>
              /\ \A i \in DOMAIN POS_ONLY :
                    DictGet(get_pose_data(attrs), POS_ONLY[i]) = 0

\* C19 witness: a translation-only call on a frame whose pose was rotated
C19_Witness ==
    /\ last.op = "set_pose"
    /\ last.ret = BoolV(TRUE)
    /\ CallKeys = PosNames
    /\ pre[s_pose].type = "SE3"
    /\ pre[s_pose].R # Identity3
    /\ attrs[s_pose].R = Identity3


---------------------------------------------------------------------------
(* Properties of reading an image (checked under SpecImage).               *)

\* the number of channels of a decoded image
Channels(img) == Len(img.items[1])

\* the read was given, or defaulted to, this format and this colour setting
ReadWith(image_format, colour) ==
    /\ last.op = "read"
    /\ last.field = image_format
    /\ last.value = colour

\* C16 as stated: for every image_format other than the two members of
\* ImageFormat, whatever its type and whatever colour is, the read raises
\* ValueError, calls no decoder and returns no image.
C16_Original ==
    ( /\ last.op = "read"
      /\ last.field \notin {ImageFormatV("OPENCV"), ImageFormatV("PIL")} ) =>
        /\ last.raised = "ValueError"
        /\ disk.reads = <<>>
        /\ last.ret = NoneV

\* C17 as stated: in both formats and for every file, a read with colour
\* True returns a 3-channel image and a read with colour False returns a
\* single-channel image.
C17_Original ==
    (last.op = "read" /\ last.raised = "") =>
        /\ last.value = BoolV(TRUE) => Channels(last.ret) = 3
        /\ last.value = BoolV(FALSE) => Channels(last.ret) = 1

\* the three channels of the colour decoding of the file are the same
ChannelsIdentical ==
    LET img == imread_color(disk)
    IN  \A i \in DOMAIN img.items :
           img.items[i][1] = img.items[i][2] /\ img.items[i][2] = img.items[i][3]

\* the file is a grayscale file, or a colour file whose pixels are all gray
GrayContent ==
    \/ disk.mode = "L"
    \/ \A i \in DOMAIN disk.px : disk.px[i][1] = disk.px[i][2] /\ disk.px[i][2] = disk.px[i][3]

\* C18: an OPENCV read with colour None returns a single-channel array
\* exactly when the three channels of the colour decoding are identical,
\* and otherwise the colour decoding itself; for a file with grayscale
\* content it returns what a read with colour False returns.
C18_AutoColour ==
    ReadWith(ImageFormatV("OPENCV"), NoneV) =>
        /\ last.raised = ""
        /\ Channels(last.ret) = 1 <=> ChannelsIdentical
        /\ ~ChannelsIdentical => last.ret = imread_color(disk)
        /\ GrayContent =>
              last.ret = read_image(disk, ImageFormatV("OPENCV"), BoolV(FALSE)).ret

\* C18 witness: a colour file whose pixels are all gray, not all of them
\* black, was read with colour None
C18_Witness ==
    /\ ReadWith(ImageFormatV("OPENCV"), NoneV)
    /\ disk.mode = "RGB"
    /\ GrayContent
    /\ \E i \in DOMAIN disk.px : disk.px[i][1] # 0
    /\ Channels(last.ret) = 1

=============================================================================
